---- MODULE Spec2Model ----
(***************************************************************************)
(* A model of InMemoryServerAPI (logger/utils/server_api.py), the          *)
(* in-memory data store of cruise definitions, current modes, per-logger   *)
(* current configurations, update callbacks and status reports.            *)
(*                                                                         *)
(* Python values are modelled as follows.  A dict is a function whose      *)
(* DOMAIN is the set of its keys.  A cruise id is a sequence of one-       *)
(* character strings, so that "ID_SEPARATOR in cruise_id" is computed and  *)
(* not assumed.  None, as a callback scope, is the one-element sequence    *)
(* NoneId, which is no sequence of single characters.  An exception is the *)
(* name of its class in the result of the call.                            *)
(***************************************************************************)
EXTENDS Naturals, Sequences, FiniteSets, TLC

VARIABLES
  cruise_configs,  \* self.cruise_configs: {cruise_id: cruise definition}
  mode,            \* self.mode: {cruise_id: mode name}
  logger_config,   \* self.logger_config: {cruise_id: {logger: config name}}
  callbacks,       \* self.callbacks: {cruise_id or None: [(callback, kwargs)]}
  status,          \* self.status: [(time, status)]
  last,            \* the call that led to this state, with its result
  threads,         \* under SpecConc: where each thread is in its call
  obs,             \* under SpecConc: what the reading thread saw last
  sig,             \* under SpecSignal: the signal_update call in progress
  wr               \* under SpecWriter: the NetworkWriter.write call

store == <<cruise_configs, mode, logger_config, callbacks, status>>
conc == <<threads, obs>>
procs == <<sig, wr>>
vars == <<cruise_configs, mode, logger_config, callbacks, status, last,
          threads, obs, sig, wr>>

\* Bounds of the model: the registrations and the status reports made under
\* Spec, where the callers of the store's operations take every turn.
MaxRegs == 1
MaxStatus == 2
\* The registrations and the status reports made under SpecHub.
HubMaxRegs == 3
HubMaxStatus == 1
\* The registrations made under SpecSignal.
SigMaxRegs == 2
\* The largest num_retry a NetworkWriter is made with under SpecWriter.
MaxRetry == 3

ID_SEPARATOR == ":"
NoneId == <<"None">>
EmptyMap == [x \in {} |-> ""]

Put(f, k, v) == [x \in DOMAIN f \cup {k} |-> IF x = k THEN v ELSE f[x]]
Del(f, k) == [x \in DOMAIN f \ {k} |-> f[x]]

(***************************************************************************)
(* The cruise definitions handed to load_cruise.  DA1 is the sample of the *)
(* class docstring cut to two loggers and two modes.  The store validates  *)
(* nothing but the id, so the others are definitions it accepts as well:   *)
(* DA2 replaces DA1 under the same id, has no default_mode, lists for l1 a *)
(* config name "x" that its configs table lacks and maps, in mode port, l1 *)
(* to "raw", which is not in l1's list, and l2 to nothing; DB1's default   *)
(* mode maps no logger; DB2's default_mode is a mode it does not define;   *)
(* DS has the separator in its id; DN has no id.                           *)
(***************************************************************************)
DA1 ==
  [name |-> "DA1", hasId |-> TRUE, id |-> <<"a">>,
   loggers |-> ("l1" :> {"off", "net"}) @@ ("l2" :> {"off", "net"}),
   modes |-> ("off" :> (("l1" :> "off") @@ ("l2" :> "off")))
             @@ ("port" :> (("l1" :> "off") @@ ("l2" :> "net"))),
   hasDefault |-> TRUE, default_mode |-> "off",
   configs |-> ("off" :> "spec_off") @@ ("net" :> "spec_net")]
DA2 ==
  [name |-> "DA2", hasId |-> TRUE, id |-> <<"a">>,
   loggers |-> ("l1" :> {"off", "net", "x"}) @@ ("l2" :> {"off"}),
   modes |-> ("port" :> ("l1" :> "raw")),
   hasDefault |-> FALSE, default_mode |-> "",
   configs |-> ("off" :> "spec_off2") @@ ("net" :> "spec_net2")
               @@ ("raw" :> "spec_raw2")]
DB1 ==
  [name |-> "DB1", hasId |-> TRUE, id |-> <<"b">>,
   loggers |-> ("l1" :> {"off"}),
   modes |-> ("off" :> EmptyMap),
   hasDefault |-> TRUE, default_mode |-> "off",
   configs |-> ("off" :> "spec_offb")]
DB2 ==
  [name |-> "DB2", hasId |-> TRUE, id |-> <<"b">>,
   loggers |-> ("l1" :> {"off"}),
   modes |-> ("off" :> ("l1" :> "off")),
   hasDefault |-> TRUE, default_mode |-> "ghost",
   configs |-> ("off" :> "spec_offb")]
DS ==
  [name |-> "DS", hasId |-> TRUE, id |-> <<"a", ":", "b">>,
   loggers |-> ("l1" :> {"off"}),
   modes |-> ("off" :> ("l1" :> "off")),
   hasDefault |-> TRUE, default_mode |-> "off",
   configs |-> ("off" :> "spec_offs")]
DN ==
  [name |-> "DN", hasId |-> FALSE, id |-> <<>>,
   loggers |-> ("l1" :> {"off"}),
   modes |-> ("off" :> ("l1" :> "off")),
   hasDefault |-> TRUE, default_mode |-> "off",
   configs |-> ("off" :> "spec_offn")]
Definitions == {DA1, DA2, DB1, DB2, DS, DN}

\* The arguments the callers pass.
CruiseIds == {<<"a">>, <<"b">>}
Scopes == CruiseIds \cup {NoneId}
ModeNames == {"off", "port", "ghost"}
LoggerIds == {"l1", "l2"}
ConfigNames == {"off", "net", "x", "raw"}
Callbacks == {"cb1", "cb2"}
Payloads == {"s1", "s2"}

\* The threads that call the store concurrently.  A thread is idle, or in a
\* load_cruise that is to call set_mode(cid, m), or in a set_mode(cid, m)
\* whose checks have passed: modes is the local variable of that name;
\* before is the mode and the table the cruise had when set_mode began.  In
\* a load_cruise, def names the definition it installs, and fresh tells that
\* the cruise had another definition or none before.
Threads == {1, 2}
Idle == [pc |-> "idle", cid |-> NoneId, m |-> "", modes |-> EmptyMap,
         before |-> [mode |-> "None", table |-> EmptyMap],
         def |-> "", fresh |-> FALSE]
ConcModes == {"off", "port"}
NoObs == [cid |-> NoneId, mode |-> "None", table |-> EmptyMap, calls |-> {},
          loads |-> {}]

\* No signal_update is in progress: frames is the stack of its calls, the
\* outer call first; invoked are the callbacks called so far, nested the
\* calls of signal_update made by signal_update, depth the deepest stack.
NoSignal == [cid |-> NoneId, frames |-> <<>>, invoked |-> <<>>, nested |-> 0,
             depth |-> 0]

\* No write is in progress: the writer's num_retry, the record, and the
\* local variables of write; sends are the results of the sends made.
NoWrite == [pc |-> "idle", num_retry |-> 0, record |-> <<>>, rec_len |-> 0,
            num_tries |-> 0, bytes_sent |-> 0, sends |-> <<>>]

\* The record of a call: its name and arguments, its result (res), the
\* callbacks it called (invoked), and whether it repeats the call before it
\* (rep, kept for set_mode and delete_cruise); a delete_cruise records in def
\* the definition it removed, "" when the cruise was unknown.
NoCall ==
  [op |-> "init", def |-> "", cid |-> NoneId, mode |-> "", logger |-> "",
   config |-> "", cb |-> "", res |-> "ok", invoked |-> <<>>, rep |-> FALSE]

----
\* "ID_SEPARATOR in cruise_id"
HasSeparator(cruise_id) == \E i \in DOMAIN cruise_id : cruise_id[i] = ID_SEPARATOR

\* get_cruises
get_cruises == DOMAIN cruise_configs

\* get_cruise_config: raises for an id that has no definition (a definition
\* is a dict with keys, so "not cruise_config" is the unknown id), else
\* returns the stored definition.
get_cruise_config_res(cruise_id) ==
  IF cruise_id \in DOMAIN cruise_configs THEN "ok" ELSE "ValueError"
get_cruise_config(cruise_id) == cruise_configs[cruise_id]

\* get_mode: self.mode.get(cruise_id, None)
get_mode(cruise_id) ==
  IF cruise_id \in DOMAIN mode THEN mode[cruise_id] ELSE "None"

\* The checks of set_mode on a table cc of cruise definitions: the class of
\* the exception it raises, or "ok".
set_mode_check(cc, cruise_id, m) ==
  IF cruise_id \notin DOMAIN cc THEN "ValueError"
  ELSE IF DOMAIN cc[cruise_id].modes = {} THEN "ValueError"
  ELSE IF m \notin DOMAIN cc[cruise_id].modes THEN "ValueError"
  ELSE "ok"

\* The cruise's {logger: config_name} dict in lc, empty when it has none.
TableOf(lc, cruise_id) == IF cruise_id \in DOMAIN lc THEN lc[cruise_id] ELSE EmptyMap

\* A set_mode that fills in the cruise's {logger: config_name} dict instead
\* of replacing it: a logger that has an entry keeps it.
set_mode_table_keep(old, modes, m) ==
  [l \in DOMAIN old \cup DOMAIN modes[m] |->
     IF l \in DOMAIN old THEN old[l] ELSE modes[m][l]]

\* A set_mode that stores only the entries of the mode that differ from the
\* ones the cruise has.
set_mode_table_diff(old, modes, m) ==
  [l \in {k \in DOMAIN modes[m] : k \notin DOMAIN old \/ old[k] # modes[m][k]} |->
     modes[m][l]]

\* The {logger: config_name} dict set_mode stores for the cruise, whose dict
\* was old: modes[mode].copy()
set_mode_table(old, modes, m) == modes[m]

\* A set_logger_config without its last check, "if not config in configs".
set_logger_config_check_no_member(cc, cruise_id, logger, config) ==
  IF cruise_id \notin DOMAIN cc THEN "ValueError"
  ELSE IF DOMAIN cc[cruise_id].loggers = {} THEN "ValueError"
  ELSE IF logger \notin DOMAIN cc[cruise_id].loggers THEN "ValueError"
  ELSE IF cc[cruise_id].loggers[logger] = {} THEN "ValueError"
  ELSE "ok"

\* The checks of set_logger_config.
set_logger_config_check(cc, cruise_id, logger, config) ==
  IF cruise_id \notin DOMAIN cc THEN "ValueError"
  ELSE IF DOMAIN cc[cruise_id].loggers = {} THEN "ValueError"
  ELSE IF logger \notin DOMAIN cc[cruise_id].loggers THEN "ValueError"
  ELSE IF cc[cruise_id].loggers[logger] = {} THEN "ValueError"
  ELSE IF config \notin cc[cruise_id].loggers[logger] THEN "ValueError"
  ELSE "ok"

\* A set_logger_config that stores a fresh dict holding the one logger.
set_logger_config_table_fresh(table, logger, config) == logger :> config

\* The cruise's {logger: config_name} dict after set_logger_config, table
\* being the dict before (empty when the cruise had none).
set_logger_config_table(table, logger, config) == Put(table, logger, config)

\* A raised exception, a returned value.
Raise(e) == [res |-> e, val |-> "None"]
Return(v) == [res |-> "ok", val |-> v]

\* dict.get(key, None) on a dict of strings
Get(d, k) == IF k \in DOMAIN d THEN d[k] ELSE "None"

\* get_config(cruise_id, logger_id, mode) on tables cc (cruise_configs) and
\* lc (logger_config); m = "None" is the omitted mode.  With a mode given,
\* line 443 reads the name "logger", which is bound nowhere.
get_config_of(cc, lc, cruise_id, logger_id, m) ==
  IF cruise_id \notin DOMAIN cc THEN Raise("ValueError")
  ELSE IF DOMAIN cc[cruise_id].configs = {} THEN Raise("ValueError")
  ELSE IF m = "None"
    THEN IF cruise_id \notin DOMAIN lc \/ DOMAIN lc[cruise_id] = {}
           THEN Raise("ValueError")
           ELSE Return(Get(cc[cruise_id].configs, Get(lc[cruise_id], logger_id)))
  ELSE IF DOMAIN cc[cruise_id].modes = {} THEN Raise("ValueError")
  ELSE IF m \notin DOMAIN cc[cruise_id].modes THEN Raise("ValueError")
  ELSE Raise("NameError")

get_config(cruise_id, logger_id, m) ==
  get_config_of(cruise_configs, logger_config, cruise_id, logger_id, m)

\* The key get_configs() files a logger under: cruise_id + ID_SEPARATOR + logger
Munge(cruise_id, logger) == cruise_id \o <<ID_SEPARATOR>> \o <<logger>>

\* get_configs(cruise_id) with no mode: get_loggers raises when the cruise is
\* unknown or lists no logger, then get_config is called for each logger and
\* the first that raises ends the call.
get_configs_cruise_res(cc, lc, cruise_id) ==
  IF cruise_id \notin DOMAIN cc THEN "ValueError"
  ELSE IF DOMAIN cc[cruise_id].loggers = {} THEN "ValueError"
  ELSE IF \E l \in DOMAIN cc[cruise_id].loggers :
            get_config_of(cc, lc, cruise_id, l, "None").res # "ok"
    THEN "ValueError"
  ELSE "ok"

\* The dict get_configs(cruise_id) returns when it does not raise.
get_configs_cruise(cc, lc, cruise_id) ==
  [l \in DOMAIN cc[cruise_id].loggers |->
     get_config_of(cc, lc, cruise_id, l, "None").val]

\* get_configs(): the loop over get_cruises() ends at the first cruise whose
\* get_configs(cruise_id) raises.
get_configs_res ==
  IF \E c \in get_cruises :
       get_configs_cruise_res(cruise_configs, logger_config, c) # "ok"
    THEN "ValueError" ELSE "ok"

\* The dict get_configs() returns when it does not raise.  load_cruise
\* installs no id that holds the separator, so a key has one cruise and one
\* logger it comes from.
get_configs_all ==
  LET pairs == {p \in get_cruises \X LoggerIds :
                  p[2] \in DOMAIN cruise_configs[p[1]].loggers}
  IN [k \in {Munge(p[1], p[2]) : p \in pairs} |->
        LET p == CHOOSE q \in pairs : Munge(q[1], q[2]) = k
        IN get_configs_cruise(cruise_configs, logger_config, p[1])[p[2]]]

\* The calls one pass of signal_update makes for the registrations of one
\* scope: the for loop only logs, and the call that follows it uses the
\* loop variables, which hold the last registration.
scope_calls(list) == IF list = <<>> THEN <<>> ELSE <<list[Len(list)]>>

\* The calls signal_update(cruise_id) makes, in order: those of the scope,
\* then, when the scope is not None, those of signal_update(None).
signal_calls(cbs, cruise_id) ==
  LET own == IF cruise_id \in DOMAIN cbs THEN scope_calls(cbs[cruise_id]) ELSE <<>>
      wild == IF cruise_id # NoneId /\ NoneId \in DOMAIN cbs
                THEN scope_calls(cbs[NoneId]) ELSE <<>>
  IN own \o wild

----
Init ==
  /\ cruise_configs = [c \in {} |-> DA1]
  /\ mode = [c \in {} |-> ""]
  /\ logger_config = [c \in {} |-> EmptyMap]
  /\ callbacks = [c \in {} |-> <<>>]
  /\ status = <<>>
  /\ last = NoCall
  /\ threads = [t \in Threads |-> Idle]
  /\ obs = NoObs
  /\ sig = NoSignal
  /\ wr = NoWrite

\* A set_mode with its lines 483-484 in force: a mode switch that succeeds
\* signals the update itself.
set_mode_signalling(cruise_id, m) ==
  LET res == set_mode_check(cruise_configs, cruise_id, m) IN
  /\ IF res = "ok"
       THEN /\ mode' = Put(mode, cruise_id, m)
            /\ logger_config' =
                 Put(logger_config, cruise_id,
                     set_mode_table(TableOf(logger_config, cruise_id),
                                    cruise_configs[cruise_id].modes, m))
       ELSE UNCHANGED <<mode, logger_config>>
  /\ UNCHANGED <<cruise_configs, callbacks, status, conc, procs>>
  /\ last' = [NoCall EXCEPT !.op = "set_mode", !.cid = cruise_id, !.mode = m,
                            !.res = res,
                            !.invoked =
                              IF res = "ok"
                                THEN signal_calls(callbacks, cruise_id)
                                ELSE <<>>,
                            !.rep = /\ last.op = "set_mode"
                                    /\ last.cid = cruise_id /\ last.mode = m]

set_mode(cruise_id, m) ==
  LET res == set_mode_check(cruise_configs, cruise_id, m) IN
  /\ IF res = "ok"
       THEN /\ mode' = Put(mode, cruise_id, m)
            /\ logger_config' =
                 Put(logger_config, cruise_id,
                     set_mode_table(TableOf(logger_config, cruise_id),
                                    cruise_configs[cruise_id].modes, m))
       ELSE UNCHANGED <<mode, logger_config>>
  /\ UNCHANGED <<cruise_configs, callbacks, status, conc, procs>>
  /\ last' = [NoCall EXCEPT !.op = "set_mode", !.cid = cruise_id, !.mode = m,
                            !.res = res,
                            !.rep = /\ last.op = "set_mode"
                                    /\ last.cid = cruise_id /\ last.mode = m]

set_logger_config(cruise_id, logger, config) ==
  LET res == set_logger_config_check(cruise_configs, cruise_id, logger, config)
  IN
  /\ IF res = "ok"
       THEN logger_config' =
              Put(logger_config, cruise_id,
                  set_logger_config_table(TableOf(logger_config, cruise_id),
                                          logger, config))
       ELSE UNCHANGED logger_config
  /\ UNCHANGED <<cruise_configs, mode, callbacks, status, conc, procs>>
  /\ last' = [NoCall EXCEPT !.op = "set_logger_config", !.cid = cruise_id,
                            !.logger = logger, !.config = config, !.res = res]

\* A load_cruise that updates the definition stored under the id with the
\* new one: modes and configs the new one lacks stay.
load_cruise_merge(D) ==
  IF ~D.hasId
    THEN /\ UNCHANGED <<store, conc, procs>>
         /\ last' = [NoCall EXCEPT !.op = "load_cruise", !.def = D.name,
                                   !.res = "NameError"]
  ELSE IF HasSeparator(D.id)
    THEN /\ UNCHANGED <<store, conc, procs>>
         /\ last' = [NoCall EXCEPT !.op = "load_cruise", !.def = D.name,
                                   !.cid = D.id, !.res = "TypeError"]
  ELSE
    LET old == IF D.id \in DOMAIN cruise_configs
                 THEN cruise_configs[D.id] ELSE D
        cc == Put(cruise_configs, D.id,
                  [D EXCEPT !.modes = D.modes @@ old.modes,
                            !.configs = D.configs @@ old.configs])
        res == IF D.hasDefault THEN set_mode_check(cc, D.id, D.default_mode)
               ELSE "ok"
    IN
    /\ cruise_configs' = cc
    /\ IF D.hasDefault /\ res = "ok"
         THEN /\ mode' = Put(mode, D.id, D.default_mode)
              /\ logger_config' =
                   Put(logger_config, D.id,
                       set_mode_table(TableOf(logger_config, D.id),
                                      cc[D.id].modes, D.default_mode))
         ELSE UNCHANGED <<mode, logger_config>>
    /\ UNCHANGED <<callbacks, status, conc, procs>>
    /\ last' = [NoCall EXCEPT !.op = "load_cruise", !.def = D.name,
                              !.cid = D.id, !.res = res]

load_cruise(D) ==
  IF ~D.hasId
    THEN /\ UNCHANGED <<store, conc, procs>>
         /\ last' = [NoCall EXCEPT !.op = "load_cruise", !.def = D.name,
                                   !.res = "NameError"]
  ELSE IF HasSeparator(D.id)
    THEN /\ UNCHANGED <<store, conc, procs>>
         /\ last' = [NoCall EXCEPT !.op = "load_cruise", !.def = D.name,
                                   !.cid = D.id, !.res = "TypeError"]
  ELSE
    LET cc == Put(cruise_configs, D.id, D)
        res == IF D.hasDefault THEN set_mode_check(cc, D.id, D.default_mode)
               ELSE "ok"
    IN
    /\ cruise_configs' = cc
    /\ IF D.hasDefault /\ res = "ok"
         THEN /\ mode' = Put(mode, D.id, D.default_mode)
              /\ logger_config' =
                   Put(logger_config, D.id,
                       set_mode_table(TableOf(logger_config, D.id), D.modes,
                                      D.default_mode))
         ELSE UNCHANGED <<mode, logger_config>>
    /\ UNCHANGED <<callbacks, status, conc, procs>>
    /\ last' = [NoCall EXCEPT !.op = "load_cruise", !.def = D.name,
                              !.cid = D.id, !.res = res]

\* The registrations of all scopes together.
RECURSIVE SumLen(_, _)
SumLen(f, S) ==
  IF S = {} THEN 0
  ELSE LET k == CHOOSE x \in S : TRUE IN Len(f[k]) + SumLen(f, S \ {k})
NumRegs == SumLen(callbacks, DOMAIN callbacks)

\* on_update: kwargs None is stored as {}.
on_update(callback, kwargs, cruise_id) ==
  LET list == IF cruise_id \in DOMAIN callbacks THEN callbacks[cruise_id] ELSE <<>>
      kw == IF kwargs = "None" THEN "{}" ELSE kwargs
  IN
  /\ callbacks' = Put(callbacks, cruise_id, Append(list, <<callback, kw>>))
  /\ UNCHANGED <<cruise_configs, mode, logger_config, status, conc, procs>>
  /\ last' = [NoCall EXCEPT !.op = "on_update", !.cid = cruise_id, !.cb = callback]

signal_update(cruise_id) ==
  /\ UNCHANGED <<store, conc, procs>>
  /\ last' = [NoCall EXCEPT !.op = "signal_update", !.cid = cruise_id,
                            !.invoked = signal_calls(callbacks, cruise_id)]

\* An update_status that keeps the latest report only.
update_status_latest(payload) ==
  /\ status' = <<<<Len(status), payload>>>>
  /\ UNCHANGED <<cruise_configs, mode, logger_config, callbacks, conc, procs>>
  /\ last' = [NoCall EXCEPT !.op = "update_status", !.config = payload]

\* update_status: the time of the report is its place in the log.
update_status(payload) ==
  /\ status' = Append(status, <<Len(status), payload>>)
  /\ UNCHANGED <<cruise_configs, mode, logger_config, callbacks, conc, procs>>
  /\ last' = [NoCall EXCEPT !.op = "update_status", !.config = payload]

\* The record of delete_cruise(cruise_id).
DeleteCall(cruise_id, res) ==
  [NoCall EXCEPT !.op = "delete_cruise", !.cid = cruise_id, !.res = res,
                 !.def = IF cruise_id \in DOMAIN cruise_configs
                           THEN cruise_configs[cruise_id].name ELSE "",
                 !.rep = last.op = "delete_cruise" /\ last.cid = cruise_id]

\* A delete_cruise without lines 585-586: the Current Mode stays.
delete_cruise_keep_mode(cruise_id) ==
  /\ cruise_configs' = Del(cruise_configs, cruise_id)
  /\ logger_config' = Del(logger_config, cruise_id)
  /\ callbacks' = Del(callbacks, cruise_id)
  /\ UNCHANGED <<mode, status, conc, procs>>
  /\ last' = DeleteCall(cruise_id, "ok")

\* A delete_cruise that drops the registrations of every scope.
delete_cruise_all_callbacks(cruise_id) ==
  /\ cruise_configs' = Del(cruise_configs, cruise_id)
  /\ mode' = Del(mode, cruise_id)
  /\ logger_config' = Del(logger_config, cruise_id)
  /\ callbacks' = [c \in {} |-> <<>>]
  /\ UNCHANGED <<status, conc, procs>>
  /\ last' = DeleteCall(cruise_id, "ok")

\* A delete_cruise without lines 589-590: the registrations stay.
delete_cruise_keep_callbacks(cruise_id) ==
  /\ cruise_configs' = Del(cruise_configs, cruise_id)
  /\ mode' = Del(mode, cruise_id)
  /\ logger_config' = Del(logger_config, cruise_id)
  /\ UNCHANGED <<callbacks, status, conc, procs>>
  /\ last' = DeleteCall(cruise_id, "ok")

\* A delete_cruise without the test of line 580: del raises KeyError for an
\* unknown cruise.
delete_cruise_strict(cruise_id) ==
  IF cruise_id \in DOMAIN cruise_configs
    THEN /\ cruise_configs' = Del(cruise_configs, cruise_id)
         /\ mode' = Del(mode, cruise_id)
         /\ logger_config' = Del(logger_config, cruise_id)
         /\ callbacks' = Del(callbacks, cruise_id)
         /\ UNCHANGED <<status, conc, procs>>
         /\ last' = DeleteCall(cruise_id, "ok")
    ELSE /\ UNCHANGED <<store, conc, procs>>
         /\ last' = DeleteCall(cruise_id, "KeyError")

\* delete_cruise: each table loses the entry of the cruise if it has one;
\* an unknown cruise is logged, nothing is raised.
delete_cruise(cruise_id) ==
  /\ cruise_configs' = Del(cruise_configs, cruise_id)
  /\ mode' = Del(mode, cruise_id)
  /\ logger_config' = Del(logger_config, cruise_id)
  /\ callbacks' = Del(callbacks, cruise_id)
  /\ UNCHANGED <<status, conc, procs>>
  /\ last' = DeleteCall(cruise_id, "ok")

Next ==
  \/ \E D \in Definitions : load_cruise(D)
  \/ \E c \in CruiseIds : delete_cruise(c)
  \/ \E c \in CruiseIds, m \in ModeNames : set_mode(c, m)
  \/ \E c \in CruiseIds, l \in LoggerIds, k \in ConfigNames :
       set_logger_config(c, l, k)
  \/ \E s \in Scopes : NumRegs < MaxRegs /\ on_update("cb1", "None", s)
  \/ \E s \in Scopes : signal_update(s)
  \/ Len(status) < MaxStatus /\ update_status("s1")

Spec == Init /\ [][Next]_vars

\* The update notification hub with several registrations in one scope: the
\* sample cruise is loaded and deleted, callbacks are registered and
\* signalled, status reports are logged.
NextHub ==
  \/ load_cruise(DA1)
  \/ \E c \in CruiseIds : delete_cruise(c)
  \/ \E cb \in Callbacks, s \in Scopes :
       NumRegs < HubMaxRegs /\ on_update(cb, "None", s)
  \/ \E s \in Scopes : signal_update(s)
  \/ \E p \in Payloads : Len(status) < HubMaxStatus /\ update_status(p)

SpecHub == Init /\ [][NextHub]_vars

----
(***************************************************************************)
(* Concurrent callers.  The store takes no lock, so a thread may be        *)
(* preempted between any two statements that touch self: each action below *)
(* is one such statement with the thread-local work before it.  A call     *)
(* that raises leaves the thread idle.                                     *)
(***************************************************************************)
Step(t, rec) == threads' = [threads EXCEPT ![t] = rec]

\* set_mode, lines 459-466: read the definition and check it.
t_set_mode_call(t, cruise_id, m) ==
  /\ threads[t].pc = "idle"
  /\ IF set_mode_check(cruise_configs, cruise_id, m) = "ok"
       THEN Step(t, [Idle EXCEPT
                       !.pc = "sm_mode", !.cid = cruise_id, !.m = m,
                       !.modes = cruise_configs[cruise_id].modes,
                       !.before = [mode |-> get_mode(cruise_id),
                                   table |-> TableOf(logger_config, cruise_id)]])
       ELSE UNCHANGED threads
  /\ UNCHANGED <<store, last, obs, procs>>

\* set_mode, line 469: self.mode[cruise_id] = mode
t_set_mode_write_mode(t) ==
  /\ threads[t].pc = "sm_mode"
  /\ mode' = Put(mode, threads[t].cid, threads[t].m)
  /\ Step(t, [threads[t] EXCEPT !.pc = "sm_table"])
  /\ UNCHANGED <<cruise_configs, logger_config, callbacks, status, last, obs, procs>>

\* set_mode, line 473: self.logger_config[cruise_id] = modes[mode].copy()
t_set_mode_write_table(t) ==
  /\ threads[t].pc = "sm_table"
  /\ logger_config' =
       Put(logger_config, threads[t].cid,
           set_mode_table(TableOf(logger_config, threads[t].cid),
                          threads[t].modes, threads[t].m))
  /\ Step(t, Idle)
  /\ UNCHANGED <<cruise_configs, mode, callbacks, status, last, obs, procs>>

\* load_cruise, lines 562-571: check the id and install the definition.
t_load_cruise_install(t, D) ==
  /\ threads[t].pc = "idle"
  /\ IF ~D.hasId \/ HasSeparator(D.id)
       THEN UNCHANGED <<cruise_configs, threads>>
       ELSE /\ cruise_configs' = Put(cruise_configs, D.id, D)
            /\ IF D.hasDefault
                 THEN Step(t, [Idle EXCEPT
                                 !.pc = "lc_default", !.cid = D.id,
                                 !.m = D.default_mode, !.def = D.name,
                                 !.fresh =
                                   \/ D.id \notin DOMAIN cruise_configs
                                   \/ cruise_configs[D.id].name # D.name])
                 ELSE UNCHANGED threads
  /\ UNCHANGED <<mode, logger_config, callbacks, status, last, obs, procs>>

\* load_cruise, line 575: the call of set_mode, up to its checks, which
\* read the definition the cruise has by now.
t_load_cruise_default(t) ==
  /\ threads[t].pc = "lc_default"
  /\ IF set_mode_check(cruise_configs, threads[t].cid, threads[t].m) = "ok"
       THEN Step(t, [threads[t] EXCEPT
                       !.pc = "sm_mode",
                       !.modes = cruise_configs[threads[t].cid].modes,
                       !.before = [mode |-> get_mode(threads[t].cid),
                                   table |-> TableOf(logger_config, threads[t].cid)]])
       ELSE Step(t, Idle)
  /\ UNCHANGED <<store, last, obs, procs>>

\* The set_mode calls on the cruise that have passed their checks and not
\* returned: the mode each sets, the mode and the table of the cruise when
\* it began, and the table it is to store.
InFlight(cruise_id) ==
  {[m |-> threads[u].m, before |-> threads[u].before,
    after |-> threads[u].modes[threads[u].m]] :
     u \in {v \in Threads : /\ threads[v].pc \in {"sm_mode", "sm_table"}
                            /\ threads[v].cid = cruise_id}}

\* The definitions that load_cruise calls in progress have installed for the
\* cruise in place of another or of none, and that the cruise has now.
Loading(cruise_id) ==
  {threads[u].def :
     u \in {v \in Threads : /\ threads[v].pc # "idle"
                            /\ threads[v].fresh
                            /\ threads[v].cid = cruise_id
                            /\ cruise_id \in DOMAIN cruise_configs
                            /\ cruise_configs[cruise_id].name = threads[v].def}}

\* A reader: get_mode, the {logger: config_name} dict behind get_configs
\* and get_config, and the definition of the cruise, read in one step.  The
\* calls in progress at that moment are kept with what it read.
t_observe(t, cruise_id) ==
  /\ threads[t].pc = "idle"
  /\ obs' = [cid |-> cruise_id, mode |-> get_mode(cruise_id),
             table |-> TableOf(logger_config, cruise_id),
             calls |-> InFlight(cruise_id),
             loads |-> Loading(cruise_id)]
  /\ UNCHANGED <<store, last, threads, procs>>

NextConc ==
  \/ \E t \in Threads, m \in ConcModes : t_set_mode_call(t, <<"a">>, m)
  \/ \E t \in Threads : t_set_mode_write_mode(t)
  \/ \E t \in Threads : t_set_mode_write_table(t)
  \/ \E t \in Threads, D \in {DA1, DA2} : t_load_cruise_install(t, D)
  \/ \E t \in Threads : t_load_cruise_default(t)
  \/ \E t \in Threads : t_observe(t, <<"a">>)

SpecConc == Init /\ [][NextConc]_vars

\* Concurrent set_mode calls alone: the sample cruise is loaded while no call
\* is in progress, so that its definition is the same throughout, and the
\* threads switch its mode.
NextRace ==
  \/ (\A t \in Threads : threads[t].pc = "idle") /\ load_cruise(DA1)
  \/ \E t \in Threads, m \in ConcModes : t_set_mode_call(t, <<"a">>, m)
  \/ \E t \in Threads : t_set_mode_write_mode(t)
  \/ \E t \in Threads : t_set_mode_write_table(t)

SpecRace == Init /\ [][NextRace]_vars

----
(***************************************************************************)
(* signal_update statement by statement.  A frame is one call: at "scope"  *)
(* it is before the if of line 535, at "nested" before the if of line 545, *)
(* at "wait" inside its call of signal_update(None).  A callback returns   *)
(* and calls nothing of the store.                                         *)
(***************************************************************************)
Top == sig.frames[Len(sig.frames)]
SetTop(pc) == [sig.frames EXCEPT ![Len(sig.frames)].pc = pc]
Pop == SubSeq(sig.frames, 1, Len(sig.frames) - 1)

\* The caller's call signal_update(cruise_id).
s_call(cruise_id) ==
  /\ sig.frames = <<>>
  /\ sig' = [cid |-> cruise_id, frames |-> <<[cid |-> cruise_id, pc |-> "scope"]>>,
             invoked |-> <<>>, nested |-> 0, depth |-> 1]
  /\ UNCHANGED <<store, last, conc, wr>>

\* Lines 535-539: the callbacks of the frame's scope.
s_scope ==
  /\ sig.frames # <<>> /\ Top.pc = "scope"
  /\ sig' = [sig EXCEPT
               !.frames = SetTop("nested"),
               !.invoked = @ \o (IF Top.cid \in DOMAIN callbacks
                                   THEN scope_calls(callbacks[Top.cid])
                                   ELSE <<>>)]
  /\ UNCHANGED <<store, last, conc, wr>>

\* A signal_update that calls itself with the scope it was called with.
s_nested_same ==
  /\ sig.frames # <<>> /\ Top.pc = "nested" /\ Top.cid # NoneId
  /\ sig' = [sig EXCEPT
               !.frames = Append(SetTop("wait"), [cid |-> Top.cid, pc |-> "scope"]),
               !.nested = @ + 1,
               !.depth = IF Len(sig.frames) + 1 > @ THEN Len(sig.frames) + 1 ELSE @]
  /\ UNCHANGED <<store, last, conc, wr>>

\* Lines 545-546: a frame whose cruise_id is not None calls
\* signal_update(cruise_id=None).
s_nested ==
  /\ sig.frames # <<>> /\ Top.pc = "nested" /\ Top.cid # NoneId
  /\ sig' = [sig EXCEPT
               !.frames = Append(SetTop("wait"), [cid |-> NoneId, pc |-> "scope"]),
               !.nested = @ + 1,
               !.depth = IF Len(sig.frames) + 1 > @ THEN Len(sig.frames) + 1 ELSE @]
  /\ UNCHANGED <<store, last, conc, wr>>

\* The end of a call: of the None frame after line 545, of another frame
\* when its nested call has returned.
s_return ==
  /\ sig.frames # <<>>
  /\ \/ Top.pc = "nested" /\ Top.cid = NoneId
     \/ Top.pc = "wait"
  /\ sig' = [sig EXCEPT !.frames = Pop]
  /\ UNCHANGED <<store, last, conc, wr>>

SignalStep == s_scope \/ s_nested \/ s_return

\* The caller registers callbacks, deletes a cruise and signals; it does so
\* between signal_update calls, which run on its thread.
NextSignal ==
  \/ \E cb \in Callbacks, s \in Scopes :
       sig.frames = <<>> /\ NumRegs < SigMaxRegs /\ on_update(cb, "None", s)
  \/ sig.frames = <<>> /\ delete_cruise(<<"a">>)
  \/ \E s \in Scopes : s_call(s)
  \/ s_scope
  \/ s_nested
  \/ s_return

SpecSignal == Init /\ [][NextSignal]_vars /\ WF_vars(SignalStep)

----
(***************************************************************************)
(* NetworkWriter.write.  A record is a string, here a sequence of          *)
(* characters; the socket is sent its UTF-8 encoding, and send returns the *)
(* number of bytes it took, any number up to the length of the encoding,   *)
(* or raises.                                                              *)
(***************************************************************************)
Records == {<<>>, <<"a">>, <<"a", "b">>, <<"e'">>, <<"a", "e'">>}

\* The bytes record.encode('utf-8') has: one for an ASCII character, two
\* for the accented letter.
Utf8Bytes(ch) == IF ch = "e'" THEN 2 ELSE 1
RECURSIVE Utf8Len(_)
Utf8Len(record) ==
  IF record = <<>> THEN 0 ELSE Utf8Bytes(Head(record)) + Utf8Len(Tail(record))

\* The loop condition of line 68.
write_again(w) == w.num_tries < w.num_retry /\ w.bytes_sent < w.rec_len

\* Lines 65-67: write(record) on a writer made with num_retry.
w_write(num_retry, record) ==
  /\ wr.pc # "loop"
  /\ wr' = [pc |-> "loop", num_retry |-> num_retry, record |-> record,
            rec_len |-> Len(record), num_tries |-> 0, bytes_sent |-> 0,
            sends |-> <<>>]
  /\ UNCHANGED <<store, last, conc, sig>>

\* Lines 68-70: one pass of the loop, whose send takes n bytes.
w_send(n) ==
  /\ wr.pc = "loop" /\ write_again(wr)
  /\ n <= Utf8Len(wr.record)
  /\ wr' = [wr EXCEPT !.bytes_sent = n, !.num_tries = @ + 1,
                      !.sends = Append(@, n)]
  /\ UNCHANGED <<store, last, conc, sig>>

\* Line 69: the send raises, which ends write.
w_send_raises ==
  /\ wr.pc = "loop" /\ write_again(wr)
  /\ wr' = [wr EXCEPT !.pc = "OSError"]
  /\ UNCHANGED <<store, last, conc, sig>>

\* Lines 68, 72-73: the loop ends and write returns.
w_return ==
  /\ wr.pc = "loop" /\ ~write_again(wr)
  /\ wr' = [wr EXCEPT !.pc = "done"]
  /\ UNCHANGED <<store, last, conc, sig>>

NextWriter ==
  \/ \E k \in 0..MaxRetry, record \in Records : w_write(k, record)
  \/ \E n \in 0..Utf8Len(wr.record) : w_send(n)
  \/ w_send_raises
  \/ w_return

SpecWriter == Init /\ [][NextWriter]_vars

----
(***************************************************************************)
(* The claims.  last is the call that led to the state: in an action       *)
(* formula, last' is the call of the step, the unprimed variables are the  *)
(* store before it and the primed ones the store after it.                 *)
(***************************************************************************)

\* config is in the valid-configuration set of the logger of the cruise.
ValidFor(cc, cruise_id, logger, config) ==
  /\ cruise_id \in DOMAIN cc
  /\ logger \in DOMAIN cc[cruise_id].loggers
  /\ config \in cc[cruise_id].loggers[logger]

\* C2: after every successful set_mode(c, m), whatever calls preceded it,
\* the Current Mode of c is m and the per-logger table of c is exactly the
\* mapping of mode m: no entry of an earlier set_logger_config is left.
C2_SetModeReplacesTable ==
  (last.op = "set_mode" /\ last.res = "ok") =>
    /\ last.cid \in DOMAIN mode
    /\ mode[last.cid] = last.mode
    /\ last.cid \in DOMAIN logger_config
    /\ logger_config[last.cid] = cruise_configs[last.cid].modes[last.mode]

\* C2 witness: set_mode("a", "port") has succeeded on the sample cruise.
C2_Witness ==
  /\ last.op = "set_mode" /\ last.res = "ok"
  /\ last.cid = <<"a">> /\ last.mode = "port"
  /\ cruise_configs[<<"a">>] = DA1

\* What get_config(c, l) is to return when mode m is the one in force: the
\* configuration m maps l to, absent ("None") when it maps l to none.
NominalConfig(D, m, l) == Return(Get(D.configs, Get(D.modes[m], l)))

\* C3: after load_cruise of a definition with a default_mode has returned,
\* get_mode is that mode and get_config of every logger of the cruise is
\* the configuration the default mode maps the logger to.
C3_LoadSetsDefaultMode ==
  (last.op = "load_cruise" /\ last.res = "ok"
     /\ cruise_configs[last.cid].hasDefault) =>
    LET D == cruise_configs[last.cid] IN
    /\ get_mode(last.cid) = D.default_mode
    /\ \A l \in DOMAIN D.loggers :
         get_config(last.cid, l, "None") = NominalConfig(D, D.default_mode, l)

\* C4: after set_mode(c, m) and a set_logger_config(c, l, k) with k valid
\* for l and other than what m maps l to, get_config(c, l) returns k's
\* configuration and get_config(c, l, mode=m) the one m maps l to, in this
\* and every later state in which neither table of c was written again.
C4_OverrideDiverges ==
  \A c \in DOMAIN cruise_configs \cap DOMAIN mode \cap DOMAIN logger_config :
    LET D == cruise_configs[c] IN
    \A l \in DOMAIN D.loggers \cap DOMAIN logger_config[c] :
      (/\ mode[c] \in DOMAIN D.modes
       /\ ValidFor(cruise_configs, c, l, logger_config[c][l])
       /\ logger_config[c][l] # Get(D.modes[mode[c]], l)) =>
        /\ get_config(c, l, "None") = Return(Get(D.configs, logger_config[c][l]))
        /\ get_config(c, l, mode[c]) = NominalConfig(D, mode[c], l)

\* C5: set_logger_config(c, l, k) with k not in l's valid-configuration set
\* raises ValueError and leaves the whole store as it was.
C5_InvalidConfigRejected ==
  [][(last'.op = "set_logger_config"
        /\ ~ValidFor(cruise_configs, last'.cid, last'.logger, last'.config)) =>
       (last'.res = "ValueError" /\ store' = store)]_vars

\* C5 witness: a rejected set_logger_config for a logger of a known cruise
\* that has a Current Configuration.
C5_Witness ==
  /\ last.op = "set_logger_config" /\ last.res = "ValueError"
  /\ last.cid \in DOMAIN cruise_configs
  /\ last.logger \in DOMAIN cruise_configs[last.cid].loggers
  /\ last.config \notin cruise_configs[last.cid].loggers[last.logger]
  /\ last.cid \in DOMAIN logger_config
  /\ last.logger \in DOMAIN logger_config[last.cid]

\* C6: a successful set_logger_config(c, l, k) changes the entry of l in the
\* table of c and nothing else: not the Current Mode, not another logger's
\* entry, not another cruise, not the registrations, not the status log.
C6_SetLoggerConfigFrame ==
  [][(last'.op = "set_logger_config" /\ last'.res = "ok") =>
       LET c == last'.cid
           old == TableOf(logger_config, c)
       IN
       /\ cruise_configs' = cruise_configs
       /\ mode' = mode
       /\ callbacks' = callbacks
       /\ status' = status
       /\ DOMAIN logger_config' = DOMAIN logger_config \cup {c}
       /\ \A d \in DOMAIN logger_config \ {c} : logger_config'[d] = logger_config[d]
       /\ DOMAIN logger_config'[c] = DOMAIN old \cup {last'.logger}
       /\ \A l \in DOMAIN old \ {last'.logger} : logger_config'[c][l] = old[l]
       /\ logger_config'[c][last'.logger] = last'.config]_vars

\* C6 witness: set_logger_config has succeeded on a cruise that never had a
\* Current Mode, so that its table was made by set_logger_config, and the
\* table holds a second logger; another cruise, a registration and a
\* status report are there to be kept.
C6_Witness ==
  /\ last.op = "set_logger_config" /\ last.res = "ok"
  /\ last.cid \notin DOMAIN mode
  /\ Cardinality(DOMAIN logger_config[last.cid]) = 2
  /\ Cardinality(DOMAIN logger_config) = 2
  /\ callbacks # [c \in {} |-> <<>>]
  /\ status # <<>>

\* C7: set_logger_config(c, l, k) succeeds only if k is in the configs table
\* of cruise c as well as in the valid-configuration set of l.
C7_ConfigInCruiseTable ==
  (last.op = "set_logger_config" /\ last.res = "ok") =>
    /\ ValidFor(cruise_configs, last.cid, last.logger, last.config)
    /\ last.config \in DOMAIN cruise_configs[last.cid].configs

\* C8: a load_cruise, set_mode or set_logger_config that raises leaves the
\* whole store as it was before the call.
C8_FailedCallChangesNothing ==
  [][(last'.op \in {"load_cruise", "set_mode", "set_logger_config"}
        /\ last'.res # "ok") => store' = store]_vars

\* C9: load_cruise of a definition whose id contains the separator raises
\* ValueError, and no known cruise id contains the separator.
C9_SeparatorRejected ==
  /\ (last.op = "load_cruise" /\ HasSeparator(last.cid)) => last.res = "ValueError"
  /\ \A c \in get_cruises : ~HasSeparator(c)

\* The calls of callback cb among the calls made, the registrations of cb
\* in one scope.
CallCount(calls, cb) == Cardinality({i \in DOMAIN calls : calls[i][1] = cb})
RegCount(scope, cb) ==
  IF scope \in DOMAIN callbacks THEN CallCount(callbacks[scope], cb) ELSE 0

\* C10: signal_update(X) for a cruise id X calls once a callback registered
\* once for X, calls no callback registered for other cruise ids only, and
\* calls once a callback registered once under None; signal_update(None)
\* calls once a callback registered once under None.
C10_SignalCallsEachOnce ==
  (last.op = "signal_update") =>
    LET X == last.cid IN
    \A cb \in Callbacks :
      /\ (X # NoneId /\ RegCount(X, cb) = 1 /\ RegCount(NoneId, cb) = 0) =>
           CallCount(last.invoked, cb) = 1
      /\ (RegCount(X, cb) = 0 /\ RegCount(NoneId, cb) = 0) =>
           CallCount(last.invoked, cb) = 0
      /\ (RegCount(NoneId, cb) = 1 /\ (X = NoneId \/ RegCount(X, cb) = 0)) =>
           CallCount(last.invoked, cb) = 1

\* C1: a reader never sees the Current Mode that a set_mode(c, m) in progress
\* sets together with the per-logger table c had before that call, nor the
\* table the call stores together with the mode c had before it.
C1_SetModeAtomic ==
  \A w \in obs.calls :
    (w.before.mode # w.m /\ w.before.table # w.after) =>
      /\ ~(obs.mode = w.m /\ obs.table = w.before.table)
      /\ ~(obs.mode = w.before.mode /\ obs.table = w.after)

\* The registrations of one scope, in registration order.
RegsOf(scope) == IF scope \in DOMAIN callbacks THEN callbacks[scope] ELSE <<>>

\* C11: signal_update(X) calls every registration made for X, once each and
\* in registration order, and after all of them every registration made
\* under None, in registration order (those alone when X is None).
C11_SignalCallsAllInOrder ==
  (last.op = "signal_update") =>
    last.invoked =
      RegsOf(last.cid) \o (IF last.cid # NoneId THEN RegsOf(NoneId) ELSE <<>>)

\* C12: after delete_cruise(c) of a known cruise c, c is not in get_cruises,
\* has no Current Mode and no per-logger table, and no registration is left
\* under c: a signal_update(c) calls what signal_update(None) calls.
C12_DeleteRemovesDerived ==
  (last.op = "delete_cruise" /\ last.def # "") =>
    /\ last.cid \notin get_cruises
    /\ last.cid \notin DOMAIN mode
    /\ last.cid \notin DOMAIN logger_config
    /\ RegsOf(last.cid) = <<>>
    /\ signal_calls(callbacks, last.cid) = signal_calls(callbacks, NoneId)

\* C12 witness: the sample cruise has been deleted while registrations
\* under None and under the other cruise id are held.
C12_Witness ==
  /\ last.op = "delete_cruise" /\ last.def = "DA1"
  /\ RegsOf(NoneId) # <<>>
  /\ RegsOf(<<"b">>) # <<>>

\* C13 as claimed: delete_cruise of an unknown cruise id raises nothing and
\* changes nothing.
C13_DeleteUnknownChangesNothing ==
  [][(last'.op = "delete_cruise" /\ last'.def = "") =>
       (last'.res = "ok" /\ store' = store)]_vars

\* C13 as amended: delete_cruise of an unknown cruise id raises nothing and
\* changes nothing but the registrations made under that id, which it
\* removes; a delete_cruise(c) that follows a delete_cruise(c) changes
\* nothing at all.
C13_DeleteUnknownSoft ==
  [][(last'.op = "delete_cruise" /\ last'.def = "") =>
       /\ last'.res = "ok"
       /\ cruise_configs' = cruise_configs
       /\ mode' = mode
       /\ logger_config' = logger_config
       /\ status' = status
       /\ callbacks' = Del(callbacks, last'.cid)
       /\ last'.rep => store' = store]_vars

\* C13 witness: delete_cruise(c) has been called twice in a row, cruises,
\* a registration and a status report being held.
C13_Witness ==
  /\ last.op = "delete_cruise" /\ last.rep /\ last.def = ""
  /\ cruise_configs # [c \in {} |-> DA1]
  /\ callbacks # [c \in {} |-> <<>>]
  /\ status # <<>>

\* C14: a set_mode(c, m) that follows a set_mode(c, m) has the result of the
\* first and leaves every table as the first left it.
C14_SetModeIdempotent ==
  [][(last'.op = "set_mode" /\ last'.rep) =>
       (last'.res = last.res /\ store' = store)]_vars

\* C14 witness: set_mode("a", "port") has succeeded twice in a row.
C14_Witness ==
  /\ last.op = "set_mode" /\ last.rep /\ last.res = "ok"
  /\ last.cid = <<"a">> /\ last.mode = "port"
  /\ logger_config[<<"a">>] = cruise_configs[<<"a">>].modes["port"]

\* The (cruise, logger) pairs of the known cruises.
KnownPairs ==
  {p \in get_cruises \X LoggerIds : p[2] \in DOMAIN cruise_configs[p[1]].loggers}

\* C15: in every state get_configs() succeeds and returns one entry for each
\* (cruise, logger) pair of the known cruises, under the key
\* cruise_id + ":" + logger_id, holding the configuration the logger has now.
C15_GetConfigsTotal ==
  /\ get_configs_res = "ok"
  /\ DOMAIN get_configs_all = {Munge(p[1], p[2]) : p \in KnownPairs}
  /\ Cardinality(DOMAIN get_configs_all) = Cardinality(KnownPairs)
  /\ \A p \in KnownPairs :
       /\ p[2] \in DOMAIN TableOf(logger_config, p[1])
       /\ logger_config[p[1]][p[2]] \in DOMAIN cruise_configs[p[1]].configs
       /\ get_configs_all[Munge(p[1], p[2])] =
            cruise_configs[p[1]].configs[logger_config[p[1]][p[2]]]

\* The loggers a caller may name: those of the definitions and one that no
\* definition has.
AnyLogger == LoggerIds \cup {"l3"}

\* cruise, mode or logger of get_config(c, l, m) does not exist
Missing(c, l, m) ==
  \/ c \notin get_cruises
  \/ l \notin DOMAIN cruise_configs[c].loggers
  \/ m # "None" /\ m \notin DOMAIN cruise_configs[c].modes

\* C16: get_config(c, l, m), with m given or omitted, raises the not-found
\* error when cruise, mode or logger is missing, and with all three present
\* it returns None without an error exactly when mode m maps nothing to l.
C16_GetConfigNotFound ==
  \A c \in CruiseIds, l \in AnyLogger, m \in ModeNames \cup {"None"} :
    /\ Missing(c, l, m) => get_config(c, l, m).res = "ValueError"
    /\ (~Missing(c, l, m) /\ m # "None") =>
         ((get_config(c, l, m) = Return("None"))
            <=> l \notin DOMAIN cruise_configs[c].modes[m])

\* C17: in every state, each mode of each known cruise maps loggers of the
\* cruise only, each to a configuration name of that logger's list.
C17_ModesNameValidConfigs ==
  \A c \in get_cruises :
    \A m \in DOMAIN cruise_configs[c].modes :
      \A l \in DOMAIN cruise_configs[c].modes[m] :
        /\ l \in DOMAIN cruise_configs[c].loggers
        /\ cruise_configs[c].modes[m][l] \in cruise_configs[c].loggers[l]

\* C19: only signal_update calls callbacks: the call of every other
\* operation ends with no callback called.
C19_OnlySignalInvokes == (last.op # "signal_update") => (last.invoked = <<>>)

\* C19 witness: a set_mode has switched the mode of a cruise for which a
\* callback is registered, and has called nothing.
C19_Witness ==
  /\ last.op = "set_mode" /\ last.res = "ok" /\ last.invoked = <<>>
  /\ RegsOf(last.cid) # <<>>
  /\ signal_calls(callbacks, last.cid) # <<>>

\* C20: update_status(payload) adds one entry with that payload at the end
\* of the status log and leaves the entries before it as they were; every
\* other operation leaves the log unchanged.
C20_StatusAppendOnly ==
  [][IF last'.op = "update_status"
       THEN /\ Len(status') = Len(status) + 1
            /\ status'[Len(status')][2] = last'.config
            /\ SubSeq(status', 1, Len(status)) = status
       ELSE status' = status]_vars

\* C20 witness: with a cruise loaded, update_status has added a second
\* report behind the first.
C20_Witness ==
  /\ last.op = "update_status" /\ Len(status) = 2
  /\ get_cruises # {}
  /\ status[1][1] # status[2][1] /\ status[2][2] = last.config

\* The definition of a name.
DefinitionOf(name) == CHOOSE D \in Definitions : D.name = name

\* C18: while a load_cruise(D) of a definition with a default mode is in
\* progress on a cruise that had another definition or none, a reader that
\* sees D installed sees the cruise in D's default mode with the table of
\* that mode.
C18_LoadAtomic ==
  \A w \in obs.loads :
    LET D == DefinitionOf(w) IN
    /\ obs.mode = D.default_mode
    /\ obs.table = D.modes[D.default_mode]

\* C21: load_cruise(D) of a definition whose id is valid stores D as given
\* under that id, in place of whatever the id had: afterwards
\* get_cruise_config(id) returns D and get_cruises() holds the id.
C21_LoadStoresDefinition ==
  [][\A D \in Definitions :
       (last'.op = "load_cruise" /\ last'.res = "ok" /\ last'.def = D.name) =>
         /\ cruise_configs' = Put(cruise_configs, D.id, D)
         /\ D.id \in get_cruises'
         /\ get_cruise_config_res(D.id)' = "ok"
         /\ get_cruise_config(D.id)' = D]_vars

\* C21 witness: DA2 was loaded over DA1 (the mode "off" that cruise a is in
\* is a mode of DA1 only) and is what get_cruise_config returns.
C21_Witness ==
  /\ last.op = "load_cruise" /\ last.res = "ok" /\ last.def = "DA2"
  /\ get_mode(<<"a">>) = "off"
  /\ get_cruise_config(<<"a">>) = DA2

\* C22: in every state the Current Mode of each known cruise that has one is
\* a mode of the definition the cruise has now.
C22_ModeIsDefined ==
  \A c \in get_cruises :
    c \in DOMAIN mode => mode[c] \in DOMAIN cruise_configs[c].modes

\* C24: in every state only cruises that have a definition have a Current
\* Mode or a per-logger table.
C24_DerivedStateHasCruise ==
  /\ DOMAIN mode \subseteq get_cruises
  /\ DOMAIN logger_config \subseteq get_cruises

\* C24 witness: cruise a, which had a mode and a table, was deleted while
\* cruise b keeps its own, and a set_logger_config for a has then failed.
C24_Witness ==
  /\ last.op = "set_logger_config" /\ last.cid = <<"a">> /\ last.res # "ok"
  /\ get_cruises = {<<"b">>}
  /\ DOMAIN mode = {<<"b">>} /\ DOMAIN logger_config = {<<"b">>}
  /\ <<"a">> \in DOMAIN callbacks

\* s is the start of t.
IsPrefix(s, t) == Len(s) <= Len(t) /\ SubSeq(t, 1, Len(s)) = s

\* C25: delete_cruise(c) leaves the registrations of every scope but c, and
\* the definition, mode and table of every cruise but c, as they were; a
\* step of any other operation leaves each scope its registrations and adds
\* new ones behind them.
C25_DeleteFrame ==
  [][IF last'.op = "delete_cruise"
       THEN /\ \A s \in Scopes \ {last'.cid} : RegsOf(s)' = RegsOf(s)
            /\ \A c \in CruiseIds \ {last'.cid} :
                 /\ (c \in get_cruises') <=> (c \in get_cruises)
                 /\ c \in get_cruises =>
                      cruise_configs'[c] = cruise_configs[c]
                 /\ get_mode(c)' = get_mode(c)
                 /\ (c \in DOMAIN logger_config') <=> (c \in DOMAIN logger_config)
                 /\ TableOf(logger_config, c)' = TableOf(logger_config, c)
       ELSE \A s \in Scopes : IsPrefix(RegsOf(s), RegsOf(s)')]_vars

\* C25 witness: cruise a was deleted while cruise b has a definition, a mode
\* and a table and a callback is registered for another scope.
C25_Witness ==
  /\ last.op = "delete_cruise" /\ last.cid = <<"a">> /\ last.def # ""
  /\ <<"b">> \in get_cruises /\ <<"b">> \in DOMAIN mode
  /\ TableOf(logger_config, <<"b">>) # EmptyMap
  /\ \E s \in Scopes \ {<<"a">>} : RegsOf(s) # <<>>

\* C23: when the set_mode calls that ran concurrently on a cruise have all
\* returned, the per-logger table of the cruise is the mapping of the mode
\* recorded as its Current Mode.
C23_ConcurrentSetModeConsistent ==
  ((\A t \in Threads : threads[t].pc = "idle") /\ <<"a">> \in DOMAIN mode) =>
    TableOf(logger_config, <<"a">>) =
      cruise_configs[<<"a">>].modes[mode[<<"a">>]]

\* C26: no signal_update has more than two calls on the stack, a call for
\* the scope None calls signal_update no further and a call for a cruise
\* calls it once, and every signal_update that has begun returns.
C26_SignalTerminates ==
  /\ [](/\ Len(sig.frames) <= 2 /\ sig.depth <= 2
        /\ sig.nested <= (IF sig.cid = NoneId THEN 0 ELSE 1)
        /\ (sig.depth > 0 /\ sig.frames = <<>>) =>
             /\ sig.nested = (IF sig.cid = NoneId THEN 0 ELSE 1)
             /\ sig.depth = sig.nested + 1)
  /\ (sig.frames # <<>>) ~> (sig.frames = <<>>)

\* C26 witness: signal_update for cruise a has returned after its nested
\* call, having called a callback of the cruise and one of the scope None.
C26_Witness ==
  /\ sig.frames = <<>> /\ sig.cid = <<"a">>
  /\ sig.depth = 2 /\ sig.nested = 1 /\ Len(sig.invoked) = 2

\* C27: when write(record) has returned for a record that is not empty, it
\* has made a first send and at most num_retry more, each send but the last
\* took fewer bytes than the record is long, and the last took the whole
\* record unless all num_retry retries were made.
C27_WriteRetries ==
  (wr.pc = "done" /\ wr.record # <<>>) =>
    /\ Len(wr.sends) >= 1
    /\ Len(wr.sends) <= 1 + wr.num_retry
    /\ \A i \in 1..(Len(wr.sends) - 1) : wr.sends[i] < wr.rec_len
    /\ \/ wr.sends[Len(wr.sends)] >= wr.rec_len
       \/ Len(wr.sends) = 1 + wr.num_retry
====
